---------------------------- MODULE Spec2Model ----------------------------
(***************************************************************************)
(* A model of processor_engine: the interface layer of src/interfaces.rs   *)
(* (FileInterface, UDPInterface over BaseInterface, with the logger of     *)
(* src/log.rs that every error path calls), the ReceiverMultiplexer of     *)
(* src/processor_base/processing.rs and the Parameter of                   *)
(* src/processor_base/parameter.rs.                                        *)
(*                                                                         *)
(* SpecIface runs one interface object (its kind, mode and log flag are    *)
(* fixed at construction) under every sequence of open/close/read/write    *)
(* calls, with the operating system free to fail any IO call.              *)
(* SpecMux runs ReceiverMultiplexer::process with an output sender set:    *)
(* one reader thread per input and the consolidation loop, over arbitrary  *)
(* record streams.  FairMuxOrdered is the same machine fed by sources that *)
(* each produce ids 1..MaxId once, in increasing order, under fair         *)
(* scheduling of the threads.                                              *)
(* FairLock and its variants run the same threads statement by statement,  *)
(* with the Mutex of data_map explicit: a reader is at try_recv or holds a *)
(* record and wants the lock, the consolidation loop locks, visits the     *)
(* cloned map one entry at a time and drops the guard.  FairLock has       *)
(* arbitrary record streams, FairLockOrdered ordered ones, FairLockShort   *)
(* short ones with stop() callable, FairStop ordered ones with stop(), and *)
(* FairLife sources that may be dropped, with the failing try_recv followed.*)
(* All of them assume that a thread's enabled step is eventually taken and *)
(* that a lock() finding the Mutex free again and again eventually succeeds.*)
(* SpecParam runs one Parameter<T> of src/processor_base/parameter.rs      *)
(* under every sequence of set_next_value / update_value calls.            *)
(* SpecTrip runs the FileInterface calls of a write / close / reopen /     *)
(* read round trip against the content of the file at file_path.           *)
(***************************************************************************)
EXTENDS Integers, Sequences, FiniteSets, TLC

\* ------------------------------------------------------------- bounds
\* Resource acquisitions (file opens, socket binds) one interface may make.
MaxOpens == 2
\* Longest buffer handed to read/write.
MaxBuf == 1
\* Number of input receivers of the multiplexer (input_data.len()).
NumInputs == 2
\* Largest sequence_id a source produces.
MaxId == 2
\* Records one source may send in SpecMux (arbitrary streams).
MaxSend == 2
\* Largest value of the parameter type T (values are 0..MaxVal).
MaxVal == 2
\* Parameter calls followed after one accepted set_next_value.
MaxSince == 3
\* Longest file content, and most bytes written, in the round trip.
MaxFile == 2
\* Largest byte value (bytes are 0..MaxByte).
MaxByte == 1
\* Largest sequence_id a source produces where the failing receives are followed.
MaxLifeId == 1

VARIABLES
    \* --- interface object (src/interfaces.rs)
    kind,                \* "File" | "UDP": which concrete struct was constructed
    base_interface,      \* BaseInterface: [status, mode, log_interface, error]
    file,                \* FileInterface.file: 0 = None, n > 0 = the n-th handle acquired
    socket,              \* UDPInterface.socket: 0 = None, n > 0 = the n-th socket bound
    remote_addr,         \* UDPInterface.remote_addr: "" | "v4uni" | "v4multi"
    remote_socket_addr,  \* UDPInterface.remote_socket_addr: "None" | "Some"
    multicast,           \* UDPInterface.multicast
    group,               \* OS state: sockets that are members of the multicast group
    opens,               \* handles acquired so far (names the next handle)
    ever_opened,         \* history: some open call has returned Ok
    last,                \* history: the last trait call, its result and the IO it made
    caller,              \* the calling thread: "running" | "panicked" | "hung"
    \* --- logger singleton (src/log.rs)
    LOGGER,              \* "None" | "Some"
    logger_lock,         \* the static Mutex: "free" | "held" | "poisoned"
    log_queue,           \* Logger.log_queue
    \* --- multiplexer (src/processor_base/processing.rs)
    chan,                \* per input: records sent and not yet received (their ids)
    sent,                \* history: per input, the ids sent so far
    pc,                  \* per reader thread: "recv" | "insert"
    held,                \* per reader thread: the id of the record just received
    data_map,            \* GroupingMap: id -> sequence of the inputs that contributed
    out,                 \* output channel: the groups sent, in order
    evicted,             \* history: keys removed by the stale branch
    \* --- parameter (src/processor_base/parameter.rs)
    param,               \* Parameter<T>: [current_value, next_value, min_value,
                         \*   max_value, allowed_values]; an Option is {} or {x}
    param_last,          \* history: the last Parameter call, its argument and outcome
    staged,              \* history: {v} for the last accepted set_next_value(v)
    since,               \* history: the calls made after it, "reject" | "update"
    \* --- the file at file_path, for the write / reopen / read round trip
    disk,                \* {} = no such file, {c} = the file with content c
    cursor,              \* position of the open handle
    buf,                 \* the bytes the last read put into the buffer
    wrote,               \* history: the bytes written through the writer, in order
    trip_pc,             \* position in the round trip
    \* --- the threads of process() and the Mutex around data_map
    mutex,               \* the tasks inside data_map.lock(): {} = free
    cons_pc,             \* consolidation loop: "lock" | "scan"
    iter,                \* what map.clone().into_iter() has yet to yield
    loc_send,            \* the local `send` of the pass
    loc_last_send,       \* the local `last_send` of the pass
    stop_requested,      \* stop() has been called
    closed,              \* inputs whose Sender has been dropped
    missed,              \* history: readers whose try_recv has returned Err
    after_miss           \* history: a reader has inserted after another one missed

ifaceVars == <<kind, base_interface, file, socket, remote_addr, remote_socket_addr,
               multicast, group, opens, ever_opened, last, caller,
               LOGGER, logger_lock, log_queue>>
muxVars == <<chan, sent, pc, held, data_map, out, evicted>>
paramVars == <<param, param_last, staged, since>>
tripVars == <<disk, cursor, buf, wrote, trip_pc>>
lockVars == <<mutex, cons_pc, iter, loc_send, loc_last_send, stop_requested, closed,
              missed, after_miss>>
vars == <<ifaceVars, muxVars, paramVars, tripVars, lockVars>>

\* What the calls of one component leave alone: the other components.
\* The interface calls say nothing about the file's content: the specification
\* that runs them does.
notIface == <<muxVars, paramVars, lockVars>>
notMux == <<ifaceVars, paramVars, tripVars, lockVars>>
notParam == <<ifaceVars, muxVars, tripVars, lockVars>>

\* ============================================================ logger
\* log(): LOGGER.lock().unwrap() then match on the Option.  "Hang": the mutex is
\* held by a thread stuck in init_log; "Panic": the mutex is poisoned or the
\* Option is None; "Logged": the clone of the logger is returned and write()
\* pushes the entry.
LogCall ==
    CASE logger_lock = "held" -> "Hang"
      [] logger_lock = "poisoned" -> "Panic"
      [] LOGGER = "None" -> "Panic"
      [] OTHER -> "Logged"

\* init_log(), called by thread `by`.  With the mutex free and LOGGER None: the
\* guard taken in the match scrutinee is still alive in the None arm, where
\* LOGGER.lock() is called again on the same thread.  std's Mutex leaves that
\* unspecified: the second lock() never returns, it deadlocks (the mutex stays
\* held) or panics (the guard unwinds, the mutex is poisoned).  LOGGER is not
\* assigned on either outcome.  With the mutex held by a stuck thread the first
\* lock() blocks; with the mutex poisoned its unwrap() panics.
init_log(by, outcome) ==
    /\ by = "caller" => caller = "running"
    /\ LOGGER = "None"
    /\ logger_lock' = IF logger_lock = "free"
                      THEN (IF outcome = "deadlock" THEN "held" ELSE "poisoned")
                      ELSE logger_lock
    /\ caller' = IF by # "caller" THEN caller
                 ELSE IF logger_lock = "held" THEN "hung"
                 ELSE IF logger_lock = "poisoned" THEN "panicked"
                 ELSE IF outcome = "deadlock" THEN "hung" ELSE "panicked"
    /\ UNCHANGED <<kind, base_interface, file, socket, remote_addr,
                   remote_socket_addr, multicast, group, opens, ever_opened,
                   last, LOGGER, log_queue>>
    /\ UNCHANGED notIface

\* ======================================================== BaseInterface
Pre == [status |-> base_interface.status, file |-> file, socket |-> socket,
        error |-> base_interface.error]

\* The record a trait call leaves in the history variable `last`.
Call(op, n, res, io) == [op |-> op, len |-> n, res |-> res, io |-> io, pre |-> Pre]

\* BaseInterface::log_error: silent for a logging sink, else log().write(..).
LogError(b) == IF b.log_interface THEN "Silent" ELSE LogCall

\* BaseInterface::set_error on base record b, as the last statement before the
\* `return Err(..)` of trait call op: stores the error, then logs.  The call
\* returns Err only if log_error returns.
SetErrorAndReturn(b, e, op, n, io) ==
    LET lg == LogError(b)
        res == CASE lg = "Panic" -> "Panic" [] lg = "Hang" -> "Hang" [] OTHER -> "Err"
    IN /\ base_interface' = [b EXCEPT !.error = e]
       /\ log_queue' = IF lg = "Logged"
                       THEN Append(log_queue, [level |-> "ERR", message |-> e])
                       ELSE log_queue
       /\ caller' = CASE res = "Panic" -> "panicked" [] res = "Hang" -> "hung"
                      [] OTHER -> "running"
       /\ last' = Call(op, n, res, io)

\* A trait call that returns without set_error (Ok, or Err through `?`).
Return(b, op, n, res, io) ==
    /\ base_interface' = b
    /\ last' = Call(op, n, res, io)
    /\ UNCHANGED <<log_queue, caller>>

\* Variables a FileInterface call never touches.
notFile == <<kind, socket, remote_addr, remote_socket_addr, multicast, group,
             LOGGER, logger_lock>>
\* Variables a UDPInterface trait call never touches.
notUdp == <<kind, file, remote_addr, multicast, LOGGER, logger_lock>>

\* ======================================================== FileInterface
\* The std call open() makes for each mode.
FileOpenCall ==
    CASE base_interface.mode = "Read" -> "File::open"
      [] base_interface.mode = "Write" -> "File::create"
      [] OTHER -> "OpenOptions::open"

\* open(): the status match that rejects a second open.
FileOpenRejectedMut == FALSE
FileOpenRejected == base_interface.status = "Connected"

\* read()/write(): the mode matches.
FileReadDenied == base_interface.mode = "Write"
FileWriteDeniedMut == FALSE
FileWriteDenied == base_interface.mode = "Read"

\* open(): io_ok is the outcome of the std open/create call.  On failure `?`
\* returns before self.file is assigned and without set_error.
FileOpen(io_ok) ==
    /\ kind = "File" /\ caller = "running"
    /\ IF FileOpenRejected
       THEN /\ SetErrorAndReturn(base_interface, "AlreadyOpenIFace", "open", 0, {})
            /\ UNCHANGED <<file, opens, ever_opened>>
       ELSE IF io_ok
       THEN /\ opens < MaxOpens
            /\ file' = opens + 1
            /\ opens' = opens + 1
            /\ ever_opened' = TRUE
            /\ Return([base_interface EXCEPT !.status = "Connected"],
                      "open", 0, "Ok", {FileOpenCall})
       ELSE /\ Return(base_interface, "open", 0, "Err", {FileOpenCall})
            /\ UNCHANGED <<file, opens, ever_opened>>
    /\ UNCHANGED notFile
    /\ UNCHANGED notIface

\* close(): self.file.take() empties the field before sync_all runs, so a failed
\* sync returns through `?` with the handle dropped and the status untouched.
FileClose(io_ok) ==
    /\ kind = "File" /\ caller = "running"
    /\ IF base_interface.status = "Disconnected"
       THEN /\ SetErrorAndReturn(base_interface, "NotOpenIFace", "close", 0, {})
            /\ file' = file
       ELSE IF file # 0
       THEN /\ file' = 0
            /\ IF io_ok
               THEN Return([base_interface EXCEPT !.status = "Disconnected"],
                           "close", 0, "Ok", {"sync_all"})
               ELSE Return(base_interface, "close", 0, "Err", {"sync_all"})
       ELSE /\ SetErrorAndReturn(base_interface, "NotOpenIFace", "close", 0, {})
            /\ file' = file
    /\ UNCHANGED <<opens, ever_opened>>
    /\ UNCHANGED notFile
    /\ UNCHANGED notIface

\* read(buffer) with buffer.len() = n: mode match, then status match; in the
\* Connected arm the error is cleared before the handle is looked at.
FileRead(n, io_ok) ==
    /\ kind = "File" /\ caller = "running"
    /\ IF FileReadDenied
       THEN SetErrorAndReturn(base_interface, "WriteOnReadOnly", "read", n, {})
       ELSE IF base_interface.status = "Connected"
       THEN LET b == [base_interface EXCEPT !.error = "none"]
            IN IF file # 0
               THEN Return(b, "read", n, IF io_ok THEN "Ok" ELSE "Err", {"read"})
               ELSE SetErrorAndReturn(b, "GenericError", "read", n, {})
       ELSE SetErrorAndReturn(base_interface, "NotOpenIFace", "read", n, {})
    /\ UNCHANGED <<file, opens, ever_opened>>
    /\ UNCHANGED notFile
    /\ UNCHANGED notIface

\* write(buffer) with buffer.len() = n.
FileWrite(n, io_ok) ==
    /\ kind = "File" /\ caller = "running"
    /\ IF FileWriteDenied
       THEN SetErrorAndReturn(base_interface, "ReadOnWriteOnly", "write", n, {})
       ELSE IF base_interface.status = "Connected"
       THEN LET b == [base_interface EXCEPT !.error = "none"]
            IN IF file # 0
               THEN Return(b, "write", n, IF io_ok THEN "Ok" ELSE "Err", {"write_all"})
               ELSE SetErrorAndReturn(b, "GenericError", "write", n, {})
       ELSE SetErrorAndReturn(base_interface, "NotOpenIFace", "write", n, {})
    /\ UNCHANGED <<file, opens, ever_opened>>
    /\ UNCHANGED notFile
    /\ UNCHANGED notIface

\* ========================================================= UDPInterface
\* What an address string is, as far as the std parsers tell:
\* "v4uni"/"v4multi"/"v6uni"/"v6multi" are IP literals, "bad" is none, "" is the
\* remote_addr of a fresh interface.
IpInputs == {"v4uni", "v4multi", "v6uni", "v6multi", "bad"}

\* format!("{}:{}", ip, port).parse::<SocketAddr>(): an IPv6 literal without
\* brackets does not parse as a socket address.
SocketAddrParses(ip) == ip \in {"v4uni", "v4multi"}

\* IpAddr::from_str(remote_addr) and is_multicast().
IpAddrParses(ip) == ip \in {"v4uni", "v4multi", "v6uni", "v6multi"}
IsMulticast(ip) == ip \in {"v4multi", "v6multi"}

\* open(): the status match that rejects a second open.
UdpOpenRejected == base_interface.status = "Connected"

\* read()/write(): the mode matches (UDPInterface::new fixes the mode ReadWrite).
UdpReadDenied == base_interface.mode = "Write"
UdpWriteDenied == base_interface.mode = "Read"

\* append_remote_addr(remote_ip, remote_port): not a trait call; it returns ()
\* and reports through set_error only.
append_remote_addr(ip) ==
    /\ kind = "UDP" /\ caller = "running"
    /\ IF base_interface.mode = "Read"
       THEN /\ SetErrorAndReturn(base_interface, "ReadOnWriteOnly", "append_remote_addr", 0, {})
            /\ remote_addr' = remote_addr
       ELSE IF ~SocketAddrParses(ip)
       THEN /\ SetErrorAndReturn(base_interface, "NotValidSocketAddr", "append_remote_addr", 0, {})
            /\ remote_addr' = remote_addr
       ELSE /\ remote_addr' = ip
            /\ Return(base_interface, "append_remote_addr", 0, "Ok", {})
    /\ UNCHANGED <<kind, file, socket, remote_socket_addr, multicast, group, opens,
                   ever_opened, LOGGER, logger_lock>>
    /\ UNCHANGED notIface

\* open(): bind_ok is the outcome of UdpSocket::bind, mc the outcome of the
\* multicast calls ("ok", "loop_fails", "join_fails").  self.socket is assigned
\* as soon as bind succeeds (the socket it replaces is dropped, which ends its
\* group membership); every later `?` returns with the new socket kept and the
\* status untouched.
UdpOpen(bind_ok, mc) ==
    /\ kind = "UDP" /\ caller = "running"
    /\ IF UdpOpenRejected
       THEN /\ SetErrorAndReturn(base_interface, "AlreadyOpenIFace", "open", 0, {})
            /\ UNCHANGED <<socket, remote_socket_addr, group, opens, ever_opened>>
       ELSE IF ~bind_ok
       THEN /\ Return(base_interface, "open", 0, "Err", {"bind"})
            /\ UNCHANGED <<socket, remote_socket_addr, group, opens, ever_opened>>
       ELSE /\ opens < MaxOpens
            /\ socket' = opens + 1
            /\ opens' = opens + 1
            /\ IF ~IpAddrParses(remote_addr)
               THEN /\ Return([base_interface EXCEPT !.status = "Connected"],
                              "open", 0, "Ok", {"bind"})
                    /\ group' = group \ {socket}
                    /\ ever_opened' = TRUE
                    /\ UNCHANGED remote_socket_addr
               ELSE IF IsMulticast(remote_addr) /\ mc = "loop_fails"
               THEN /\ Return(base_interface, "open", 0, "Err",
                              {"bind", "set_multicast_loop"})
                    /\ group' = group \ {socket}
                    /\ UNCHANGED <<remote_socket_addr, ever_opened>>
               ELSE IF IsMulticast(remote_addr) /\ mc = "join_fails"
               THEN /\ Return(base_interface, "open", 0, "Err",
                              {"bind", "set_multicast_loop", "join_multicast"})
                    /\ group' = group \ {socket}
                    /\ UNCHANGED <<remote_socket_addr, ever_opened>>
               ELSE /\ Return([base_interface EXCEPT !.status = "Connected"],
                              "open", 0, "Ok",
                              IF IsMulticast(remote_addr)
                              THEN {"bind", "set_multicast_loop", "join_multicast"}
                              ELSE {"bind"})
                    /\ group' = IF IsMulticast(remote_addr)
                                THEN (group \ {socket}) \cup {opens + 1}
                                ELSE group \ {socket}
                    /\ remote_socket_addr' = "Some"
                    /\ ever_opened' = TRUE
    /\ UNCHANGED notUdp
    /\ UNCHANGED notIface

\* close(): the socket is only borrowed (`if let Some(ref socket)`), never taken;
\* the status is set before the multicast leave, which runs only if
\* self.multicast is set.  leave_ok is the outcome of leave_multicast.
UdpClose(leave_ok) ==
    /\ kind = "UDP" /\ caller = "running"
    /\ IF base_interface.status = "Disconnected"
       THEN /\ SetErrorAndReturn(base_interface, "NotOpenIFace", "close", 0, {})
            /\ group' = group
       ELSE IF socket # 0
       THEN LET b == [base_interface EXCEPT !.status = "Disconnected"]
            IN IF multicast /\ remote_socket_addr = "Some"
               THEN IF leave_ok
                    THEN /\ Return(b, "close", 0, "Ok", {"leave_multicast"})
                         /\ group' = group \ {socket}
                    ELSE /\ Return(b, "close", 0, "Err", {"leave_multicast"})
                         /\ group' = group
               ELSE /\ Return(b, "close", 0, "Ok", {})
                    /\ group' = group
       ELSE /\ SetErrorAndReturn(base_interface, "NotOpenIFace", "close", 0, {})
            /\ group' = group
    /\ UNCHANGED <<socket, remote_socket_addr, opens, ever_opened>>
    /\ UNCHANGED notUdp
    /\ UNCHANGED notIface

\* read(buffer): after the mode match only self.socket decides; the status is
\* not consulted and the error is not cleared.
UdpRead(n, io_ok) ==
    /\ kind = "UDP" /\ caller = "running"
    /\ IF UdpReadDenied
       THEN SetErrorAndReturn(base_interface, "WriteOnReadOnly", "read", n, {})
       ELSE IF socket # 0
       THEN Return(base_interface, "read", n, IF io_ok THEN "Ok" ELSE "Err",
                   {"recv_from"})
       ELSE SetErrorAndReturn(base_interface, "NotOpenIFace", "read", n, {})
    /\ UNCHANGED <<socket, remote_socket_addr, group, opens, ever_opened>>
    /\ UNCHANGED notUdp
    /\ UNCHANGED notIface

\* write(buffer): after the mode match remote_socket_addr decides first, then
\* self.socket.
UdpWrite(n, io_ok) ==
    /\ kind = "UDP" /\ caller = "running"
    /\ IF UdpWriteDenied
       THEN SetErrorAndReturn(base_interface, "ReadOnWriteOnly", "write", n, {})
       ELSE IF remote_socket_addr = "Some"
       THEN IF socket # 0
            THEN Return(base_interface, "write", n, IF io_ok THEN "Ok" ELSE "Err",
                        {"send_to"})
            ELSE SetErrorAndReturn(base_interface, "NotOpenIFace", "write", n, {})
       ELSE SetErrorAndReturn(base_interface, "GenericError", "write", n, {})
    /\ UNCHANGED <<socket, remote_socket_addr, group, opens, ever_opened>>
    /\ UNCHANGED notUdp
    /\ UNCHANGED notIface

\* =================================================== ReceiverMultiplexer
Inputs == 1..NumInputs
\* sequence_ids (DataProcessor.id, a u64) the sources may use.
Ids == 0..MaxId
NoId == -1

\* sender_size = self.input_data.len()
sender_size == NumInputs

EmptyMap == [k \in {} |-> <<>>]

\* map.entry(id).or_insert_with(Vec::new).push(data), data coming from input r.
MapPush(m, id, r) ==
    IF id \in DOMAIN m
    THEN [m EXCEPT ![id] = Append(@, r)]
    ELSE [k \in DOMAIN m \cup {id} |-> IF k = id THEN <<r>> ELSE m[k]]

\* map.remove(&id)
MapRemove(m, id) == [k \in DOMAIN m \ {id} |-> m[k]]

\* The orders in which HashMap's into_iter() may yield the keys of a map: the
\* order is unspecified, so every permutation.
IterOrders(m) ==
    LET n == Cardinality(DOMAIN m)
    IN {o \in [1..n -> DOMAIN m] : \A i, j \in 1..n : i # j => o[i] # o[j]}

\* The completeness test of the scan: data_list.len() == sender_size.
GroupComplete(data_list) == Len(data_list) = sender_size

\* The staleness test of the scan: id < last_send.
IsStaleMut(id, last_send) == id > last_send
IsStale(id, last_send) == id < last_send

\* The for loop of one consolidation pass over the snapshot snap = map.clone(),
\* visited in order o from position i.  st carries the locals send and
\* last_send, the live map, and what the pass has sent and evicted so far.
RECURSIVE Scan(_, _, _, _)
Scan(snap, o, i, st) ==
    IF i > Len(o) THEN st
    ELSE LET id == o[i]
             data_list == snap[id]
         IN IF GroupComplete(data_list)
            THEN Scan(snap, o, i + 1,
                      [st EXCEPT !.map = MapRemove(@, id),
                                 !.send = TRUE,
                                 !.last_send = id,
                                 !.sent = Append(@, [id |-> id, data |-> data_list])])
            ELSE IF IsStale(id, st.last_send)
            THEN Scan(snap, o, i + 1,
                      [st EXCEPT !.map = MapRemove(@, id),
                                 !.evicted = @ \cup {id}])
            ELSE IF st.send
            THEN st
            ELSE Scan(snap, o, i + 1, st)

\* One iteration of the consolidation loop, from lock() to drop(map).
Pass(m, o) ==
    Scan(m, o, 1, [map |-> m, send |-> FALSE, last_send |-> 0,
                   sent |-> <<>>, evicted |-> {}])

\* The producer behind input s sends a record with sequence_id id (any id, any
\* number of times: SpecMux).
Produce(s, id) ==
    /\ Len(sent[s]) < MaxSend
    /\ chan' = [chan EXCEPT ![s] = Append(@, id)]
    /\ sent' = [sent EXCEPT ![s] = Append(@, id)]
    /\ UNCHANGED <<pc, held, data_map, out, evicted>>
    /\ UNCHANGED notMux

\* The producer behind input s sends its next record: ids 1..MaxId, each once,
\* in increasing order (FairMuxOrdered).
ProduceOrdered(s) ==
    /\ Len(sent[s]) < MaxId
    /\ chan' = [chan EXCEPT ![s] = Append(@, Len(sent[s]) + 1)]
    /\ sent' = [sent EXCEPT ![s] = Append(@, Len(sent[s]) + 1)]
    /\ UNCHANGED <<pc, held, data_map, out, evicted>>
    /\ UNCHANGED notMux

\* Reader thread r: receiver.try_recv() returns Ok(data).  (An Err leaves the
\* loop where it is and changes nothing.)
Recv(r) ==
    /\ pc[r] = "recv"
    /\ chan[r] # <<>>
    /\ held' = [held EXCEPT ![r] = Head(chan[r])]
    /\ chan' = [chan EXCEPT ![r] = Tail(@)]
    /\ pc' = [pc EXCEPT ![r] = "insert"]
    /\ UNCHANGED <<sent, data_map, out, evicted>>
    /\ UNCHANGED notMux

\* Reader thread r: lock, entry(..).or_insert_with(..), push, unlock.
Insert(r) ==
    /\ pc[r] = "insert"
    /\ data_map' = MapPush(data_map, held[r], r)
    /\ held' = [held EXCEPT ![r] = NoId]
    /\ pc' = [pc EXCEPT ![r] = "recv"]
    /\ UNCHANGED <<chan, sent, out, evicted>>
    /\ UNCHANGED notMux

\* The consolidation loop: one pass under the lock, the iteration order o being
\* whatever the HashMap yields.
Consolidate(o) ==
    LET st == Pass(data_map, o)
    IN /\ data_map' = st.map
       /\ out' = out \o st.sent
       /\ evicted' = evicted \cup st.evicted
       /\ UNCHANGED <<chan, sent, pc, held>>
       /\ UNCHANGED notMux

\* ================================== the threads of process() and the Mutex
\* The tasks that take the lock: reader r is r, the consolidation loop is Cons.
Cons == 0
notThreads == <<ifaceVars, paramVars, tripVars>>

\* data_map.lock(): returns once no other task is inside.
LockFreeMut == TRUE
LockFree == mutex = {}

\* A producer sends while its Sender is alive.
Send(s, id) == s \notin closed /\ Produce(s, id)
SendOrdered(s) == s \notin closed /\ ProduceOrdered(s)
SendLife(s) == Len(sent[s]) < MaxLifeId /\ SendOrdered(s)

\* The Sender of input s is dropped: once the channel is empty try_recv
\* returns Err(Disconnected).
Disconnect(s) ==
    /\ s \notin closed
    /\ closed' = closed \cup {s}
    /\ UNCHANGED <<mutex, cons_pc, iter, loc_send, loc_last_send, stop_requested,
                   missed, after_miss>>
    /\ UNCHANGED muxVars
    /\ UNCHANGED notThreads

\* Reader thread r: try_recv() returns Err(Empty) or Err(Disconnected); the
\* `if let Ok` body is skipped and the loop goes round again.
RecvFailMut(r) ==
    /\ pc[r] = "recv"
    /\ chan[r] = <<>>
    /\ missed' = missed \cup {r}
    /\ pc' = [pc EXCEPT ![r] = IF r \in closed THEN "exited" ELSE @]
    /\ UNCHANGED <<mutex, cons_pc, iter, loc_send, loc_last_send, stop_requested,
                   closed, after_miss>>
    /\ UNCHANGED <<chan, sent, held, data_map, out, evicted>>
    /\ UNCHANGED notThreads
RecvFail(r) ==
    /\ pc[r] = "recv"
    /\ chan[r] = <<>>
    /\ missed' = missed \cup {r}
    /\ UNCHANGED <<mutex, cons_pc, iter, loc_send, loc_last_send, stop_requested,
                   closed, after_miss>>
    /\ UNCHANGED muxVars
    /\ UNCHANGED notThreads

\* Reader thread r, holding a record: data_map.lock().unwrap() returns.
Acquire(r) ==
    /\ pc[r] = "insert"
    /\ r \notin mutex
    /\ LockFree
    /\ mutex' = mutex \cup {r}
    /\ UNCHANGED <<cons_pc, iter, loc_send, loc_last_send, stop_requested, closed,
                   missed, after_miss>>
    /\ UNCHANGED muxVars
    /\ UNCHANGED notThreads

\* Reader thread r inside the lock: entry(..).or_insert_with(..), push; the
\* guard is dropped at the end of the if body.
Push(r) ==
    /\ pc[r] = "insert"
    /\ r \in mutex
    /\ data_map' = MapPush(data_map, held[r], r)
    /\ held' = [held EXCEPT ![r] = NoId]
    /\ pc' = [pc EXCEPT ![r] = "recv"]
    /\ mutex' = mutex \ {r}
    /\ after_miss' = (after_miss \/ missed \ {r} # {})
    /\ UNCHANGED <<cons_pc, iter, loc_send, loc_last_send, stop_requested, closed,
                   missed>>
    /\ UNCHANGED <<chan, sent, out, evicted>>
    /\ UNCHANGED notThreads

\* Consolidation loop: lock(), the locals, and map.clone().into_iter(), which
\* yields the entries of the copy in the order o.
BeginPass(o) ==
    /\ cons_pc = "lock"
    /\ LockFree
    /\ mutex' = mutex \cup {Cons}
    /\ iter' = [i \in 1..Len(o) |-> [id |-> o[i], data |-> data_map[o[i]]]]
    /\ loc_send' = FALSE
    /\ loc_last_send' = 0
    /\ cons_pc' = "scan"
    /\ UNCHANGED <<stop_requested, closed, missed, after_miss>>
    /\ UNCHANGED muxVars
    /\ UNCHANGED notThreads

\* One iteration of the for loop, on the next entry of the copy.
ScanStep ==
    /\ cons_pc = "scan"
    /\ iter # <<>>
    /\ LET id == Head(iter).id
           data_list == Head(iter).data
       IN IF GroupComplete(data_list)
          THEN /\ out' = Append(out, [id |-> id, data |-> data_list])
               /\ data_map' = MapRemove(data_map, id)
               /\ loc_send' = TRUE
               /\ loc_last_send' = id
               /\ iter' = Tail(iter)
               /\ UNCHANGED evicted
          ELSE IF IsStale(id, loc_last_send)
          THEN /\ data_map' = MapRemove(data_map, id)
               /\ evicted' = evicted \cup {id}
               /\ iter' = Tail(iter)
               /\ UNCHANGED <<out, loc_send, loc_last_send>>
          ELSE IF loc_send
          THEN /\ iter' = <<>>
               /\ UNCHANGED <<data_map, out, evicted, loc_send, loc_last_send>>
          ELSE /\ iter' = Tail(iter)
               /\ UNCHANGED <<data_map, out, evicted, loc_send, loc_last_send>>
    /\ UNCHANGED <<mutex, cons_pc, stop_requested, closed, missed, after_miss>>
    /\ UNCHANGED <<chan, sent, pc, held>>
    /\ UNCHANGED notThreads

\* The for loop is over: drop(map), and round the loop again.
EndPassMut ==
    /\ cons_pc = "scan"
    /\ iter = <<>>
    /\ cons_pc' = "lock"
    /\ loc_send' = FALSE
    /\ loc_last_send' = 0
    /\ UNCHANGED <<mutex, iter, stop_requested, closed, missed, after_miss>>
    /\ UNCHANGED muxVars
    /\ UNCHANGED notThreads
EndPass ==
    /\ cons_pc = "scan"
    /\ iter = <<>>
    /\ mutex' = mutex \ {Cons}
    /\ cons_pc' = "lock"
    /\ loc_send' = FALSE
    /\ loc_last_send' = 0
    /\ UNCHANGED <<iter, stop_requested, closed, missed, after_miss>>
    /\ UNCHANGED muxVars
    /\ UNCHANGED notThreads

\* ProcessingSequence::stop(): signals the spawned tasks to terminate.
stop ==
    /\ ~stop_requested
    /\ stop_requested' = TRUE
    /\ UNCHANGED <<mutex, cons_pc, iter, loc_send, loc_last_send, closed, missed,
                   after_miss>>
    /\ UNCHANGED muxVars
    /\ UNCHANGED notThreads

\* ============================================================ Parameter
\* The values of T.
Vals == 0..MaxVal
\* Option<T>: None is {}, Some(x) is {x}.
OptVals == {{}} \cup {{x} : x \in Vals}
\* Option<Vec<T>>: None is {}, Some(list) is {S} for the set S of the list's
\* elements (contains() is all the code asks of the list).
OptLists == {{}} \cup {{S} : S \in SUBSET Vals}

\* check_limits(value): each bound is tested only if it is present.
check_limitsMut(value) == \A m \in param.min_value : ~(value < m)
check_limits(value) ==
    /\ \A m \in param.min_value : ~(value < m)
    /\ \A m \in param.max_value : ~(value > m)

\* check_allowed_values(value).
check_allowed_values(value) == \A S \in param.allowed_values : value \in S

\* get_current_value().
get_current_value == param.current_value

\* The record a Parameter call leaves in the history variable param_last.
ParamCall(op, value, res) ==
    [op |-> op, value |-> value, res |-> res,
     pre_current |-> param.current_value, pre_next |-> param.next_value]
NoParamCall == [op |-> "none", value |-> 0, res |-> "none",
                pre_current |-> 0, pre_next |-> 0]

\* A parameter nobody calls (the other specifications).
IdleParam == [current_value |-> 0, next_value |-> 0, min_value |-> {},
              max_value |-> {}, allowed_values |-> {}]

\* Parameter::new: next_value is a copy of current_value, which is not checked
\* against the limits or the allowed values.
NewParameter ==
    {[current_value |-> c, next_value |-> c, min_value |-> lo,
      max_value |-> hi, allowed_values |-> al] :
        c \in Vals, lo \in OptVals, hi \in OptVals, al \in OptLists}

\* set_next_value(value): both checks panic before the assignment.  The panic
\* unwinds out of the call and leaves the object as it was; the caller that
\* catches it goes on calling.
set_next_valueMut(value) ==
    /\ IF ~check_limits(value)
       THEN /\ Len(since) < MaxSince
            /\ param_last' = ParamCall("set_next_value", value, "Panic: out of limits")
            /\ since' = Append(since, "reject")
            /\ UNCHANGED <<param, staged>>
       ELSE IF ~check_allowed_values(value)
       THEN /\ Len(since) < MaxSince
            /\ param_last' = ParamCall("set_next_value", value,
                                       "Panic: not in allowed values")
            /\ since' = Append(since, "reject")
            /\ UNCHANGED <<param, staged>>
       ELSE /\ param' = [param EXCEPT !.next_value = value, !.current_value = value]
            /\ param_last' = ParamCall("set_next_value", value, "Ok")
            /\ staged' = {value}
            /\ since' = <<>>
    /\ UNCHANGED notParam
set_next_value(value) ==
    /\ IF ~check_limits(value)
       THEN /\ Len(since) < MaxSince
            /\ param_last' = ParamCall("set_next_value", value, "Panic: out of limits")
            /\ since' = Append(since, "reject")
            /\ UNCHANGED <<param, staged>>
       ELSE IF ~check_allowed_values(value)
       THEN /\ Len(since) < MaxSince
            /\ param_last' = ParamCall("set_next_value", value,
                                       "Panic: not in allowed values")
            /\ since' = Append(since, "reject")
            /\ UNCHANGED <<param, staged>>
       ELSE /\ param' = [param EXCEPT !.next_value = value]
            /\ param_last' = ParamCall("set_next_value", value, "Ok")
            /\ staged' = {value}
            /\ since' = <<>>
    /\ UNCHANGED notParam

\* update_value(): current_value = next_value.clone().
update_valueMut ==
    /\ Len(since) < MaxSince
    /\ param' = [param EXCEPT !.current_value = param.next_value,
                              !.next_value = param.current_value]
    /\ param_last' = ParamCall("update_value", 0, "Ok")
    /\ since' = Append(since, "update")
    /\ UNCHANGED staged
    /\ UNCHANGED notParam
update_value ==
    /\ Len(since) < MaxSince
    /\ param' = [param EXCEPT !.current_value = param.next_value]
    /\ param_last' = ParamCall("update_value", 0, "Ok")
    /\ since' = Append(since, "update")
    /\ UNCHANGED staged
    /\ UNCHANGED notParam

\* ========================================================= construction
Modes == {"Read", "Write", "ReadWrite"}

\* `last` before any call.
NoCall == [op |-> "none", len |-> 0, res |-> "none", io |-> {},
           pre |-> [status |-> "Disconnected", file |-> 0, socket |-> 0,
                    error |-> "none"]]

\* BaseInterface::new for each way of constructing the object: FileInterface::new
\* takes the mode, UDPInterface::new fixes ReadWrite; log_if None means false.
NewBase(k) ==
    [status : {"Disconnected"},
     mode : IF k = "File" THEN Modes ELSE {"ReadWrite"},
     log_interface : BOOLEAN,
     error : {"none"}]

\* ===================================================== file round trip
\* The calls of FileInterface together with what the std::fs calls they make
\* do to the one file at file_path.
Bytes == 0..MaxByte
Contents == UNION {[1..n -> Bytes] : n \in 0..MaxFile}

\* File::open and OpenOptions::new().read(true).write(true).open() need the
\* file to exist; File::create creates it.
OpenFinds == base_interface.mode = "Write" \/ disk # {}
\* File::create truncates; the other two leave the content alone.
ContentAtOpen ==
    IF base_interface.mode = "Write" THEN <<>> ELSE CHOOSE c \in disk : TRUE

\* write_all(bytes) on a handle at position pos: the bytes replace what is
\* there and extend the file past its end.
WriteAtMut(content, pos, bytes) == content \o bytes
WriteAt(content, pos, bytes) ==
    [i \in 1..(IF pos + Len(bytes) > Len(content) THEN pos + Len(bytes)
                                                  ELSE Len(content)) |->
        IF i > pos /\ i <= pos + Len(bytes) THEN bytes[i - pos] ELSE content[i]]

\* read(buffer) with buffer.len() = n on a handle at position pos of a regular
\* file: the bytes from pos on, as many as the buffer holds or the file has.
ReadAt(content, pos, n) ==
    SubSeq(content, pos + 1,
           IF pos + n > Len(content) THEN Len(content) ELSE pos + n)

\* FileInterface::new(.., mode = ReadWrite, ..): the writer.
NewWriter ==
    [status : {"Disconnected"}, mode : {"ReadWrite"},
     log_interface : BOOLEAN, error : {"none"}]

\* open() of the writer or of the reader.  The std call succeeds only if it
\* finds the file; a successful open starts at position 0.
TripOpen(io_ok) ==
    /\ trip_pc \in {"w_open", "r_open"}
    /\ io_ok => OpenFinds
    /\ FileOpen(io_ok)
    /\ IF last'.res = "Ok"
       THEN /\ disk' = {ContentAtOpen}
            /\ cursor' = 0
            /\ trip_pc' = IF trip_pc = "w_open" THEN "w_write" ELSE "r_read"
       ELSE /\ trip_pc' = "aborted"
            /\ UNCHANGED <<disk, cursor>>
    /\ UNCHANGED <<buf, wrote>>

\* write(bytes) on the writer.  A write_all that fails may have written any
\* proper prefix of the bytes.
TripWrite(bytes, io_ok) ==
    /\ trip_pc = "w_write"
    /\ Len(wrote) + Len(bytes) <= MaxFile
    /\ FileWrite(Len(bytes), io_ok)
    /\ IF last'.res = "Ok"
       THEN /\ disk' = {WriteAt(c, cursor, bytes) : c \in disk}
            /\ cursor' = cursor + Len(bytes)
            /\ wrote' = wrote \o bytes
            /\ trip_pc' = "w_write"
       ELSE /\ \E k \in 0..Len(bytes) :
                 /\ k < Len(bytes) \/ bytes = <<>>
                 /\ disk' = {WriteAt(c, cursor, SubSeq(bytes, 1, k)) : c \in disk}
                 /\ cursor' = cursor + k
            /\ trip_pc' = "aborted"
            /\ UNCHANGED wrote
    /\ UNCHANGED buf

\* close() of the writer.
TripClose(io_ok) ==
    /\ trip_pc = "w_write"
    /\ FileClose(io_ok)
    /\ trip_pc' = IF last'.res = "Ok" THEN "r_new" ELSE "aborted"
    /\ UNCHANGED <<disk, cursor, buf, wrote>>

\* The writer is dropped and FileInterface::new(.., mode = Read, ..) makes the
\* reader on the same path.
NewReader(log_if) ==
    /\ trip_pc = "r_new"
    /\ base_interface' = [status |-> "Disconnected", mode |-> "Read",
                          log_interface |-> log_if, error |-> "none"]
    /\ file' = 0
    /\ ever_opened' = FALSE
    /\ last' = NoCall
    /\ trip_pc' = "r_open"
    /\ UNCHANGED <<opens, caller, log_queue>>
    /\ UNCHANGED notFile
    /\ UNCHANGED notIface
    /\ UNCHANGED <<disk, cursor, buf, wrote>>

\* read(buffer) on the reader, the buffer as long as what was written.
TripRead(io_ok) ==
    /\ trip_pc = "r_read"
    /\ FileRead(Len(wrote), io_ok)
    /\ IF last'.res = "Ok"
       THEN /\ buf' = ReadAt(CHOOSE c \in disk : TRUE, cursor, Len(wrote))
            /\ cursor' = cursor + Len(buf')
            /\ trip_pc' = "done"
       ELSE /\ trip_pc' = "aborted"
            /\ UNCHANGED <<buf, cursor>>
    /\ UNCHANGED <<disk, wrote>>

\* ======================================================= specifications
\* FileInterface::new / UDPInterface::new, with LOGGER as the static declares
\* it; the multiplexer is constructed and idle.
InitIface ==
    /\ kind \in {"File", "UDP"}
    /\ base_interface \in NewBase(kind)
    /\ file = 0
    /\ socket = 0
    /\ remote_addr = ""
    /\ remote_socket_addr = "None"
    /\ multicast = FALSE
    /\ group = {}
    /\ opens = 0
    /\ ever_opened = FALSE
    /\ last = NoCall
    /\ caller = "running"
    /\ LOGGER = "None"
    /\ logger_lock = "free"
    /\ log_queue = <<>>
    /\ chan = [s \in Inputs |-> <<>>]
    /\ sent = [s \in Inputs |-> <<>>]
    /\ pc = [r \in Inputs |-> "recv"]
    /\ held = [r \in Inputs |-> NoId]
    /\ data_map = EmptyMap
    /\ out = <<>>
    /\ evicted = {}
    /\ param = IdleParam
    /\ param_last = NoParamCall
    /\ staged = {}
    /\ since = <<>>
    /\ disk = {}
    /\ cursor = 0
    /\ buf = <<>>
    /\ wrote = <<>>
    /\ trip_pc = "idle"
    /\ mutex = {}
    /\ cons_pc = "lock"
    /\ iter = <<>>
    /\ loc_send = FALSE
    /\ loc_last_send = 0
    /\ stop_requested = FALSE
    /\ closed = {}
    /\ missed = {}
    /\ after_miss = FALSE

\* ReceiverMultiplexer::new followed by process() with output_data set, the
\* reader threads spawned; beside it one interface object that is never called.
InitMux ==
    /\ kind = "File"
    /\ base_interface = [status |-> "Disconnected", mode |-> "Read",
                         log_interface |-> FALSE, error |-> "none"]
    /\ file = 0
    /\ socket = 0
    /\ remote_addr = ""
    /\ remote_socket_addr = "None"
    /\ multicast = FALSE
    /\ group = {}
    /\ opens = 0
    /\ ever_opened = FALSE
    /\ last = NoCall
    /\ caller = "running"
    /\ LOGGER = "None"
    /\ logger_lock = "free"
    /\ log_queue = <<>>
    /\ chan = [s \in Inputs |-> <<>>]
    /\ sent = [s \in Inputs |-> <<>>]
    /\ pc = [r \in Inputs |-> "recv"]
    /\ held = [r \in Inputs |-> NoId]
    /\ data_map = EmptyMap
    /\ out = <<>>
    /\ evicted = {}
    /\ param = IdleParam
    /\ param_last = NoParamCall
    /\ staged = {}
    /\ since = <<>>
    /\ disk = {}
    /\ cursor = 0
    /\ buf = <<>>
    /\ wrote = <<>>
    /\ trip_pc = "idle"
    /\ mutex = {}
    /\ cons_pc = "lock"
    /\ iter = <<>>
    /\ loc_send = FALSE
    /\ loc_last_send = 0
    /\ stop_requested = FALSE
    /\ closed = {}
    /\ missed = {}
    /\ after_miss = FALSE

\* The interface under every call sequence; the file's content is not followed.
NextIface ==
    \/ \E by \in {"caller", "other"}, outcome \in {"deadlock", "panic"} :
          init_log(by, outcome) /\ UNCHANGED tripVars
    \/ \E io_ok \in BOOLEAN : FileOpen(io_ok) /\ UNCHANGED tripVars
    \/ \E io_ok \in BOOLEAN : FileClose(io_ok) /\ UNCHANGED tripVars
    \/ \E n \in 0..MaxBuf, io_ok \in BOOLEAN :
          FileRead(n, io_ok) /\ UNCHANGED tripVars
    \/ \E n \in 0..MaxBuf, io_ok \in BOOLEAN :
          FileWrite(n, io_ok) /\ UNCHANGED tripVars
    \/ \E ip \in IpInputs : append_remote_addr(ip) /\ UNCHANGED tripVars
    \/ \E bind_ok \in BOOLEAN, mc \in {"ok", "loop_fails", "join_fails"} :
          UdpOpen(bind_ok, mc) /\ UNCHANGED tripVars
    \/ \E leave_ok \in BOOLEAN : UdpClose(leave_ok) /\ UNCHANGED tripVars
    \/ \E n \in 0..MaxBuf, io_ok \in BOOLEAN :
          UdpRead(n, io_ok) /\ UNCHANGED tripVars
    \/ \E n \in 0..MaxBuf, io_ok \in BOOLEAN :
          UdpWrite(n, io_ok) /\ UNCHANGED tripVars

ReaderStep == \E r \in Inputs : Recv(r) \/ Insert(r)
ConsolidateStep == \E o \in IterOrders(data_map) : Consolidate(o)

NextMux ==
    \/ \E s \in Inputs, id \in Ids : Produce(s, id)
    \/ ReaderStep
    \/ ConsolidateStep

NextMuxOrdered ==
    \/ \E s \in Inputs : ProduceOrdered(s)
    \/ ReaderStep
    \/ ConsolidateStep

SpecIface == InitIface /\ [][NextIface]_vars
SpecMux == InitMux /\ [][NextMux]_vars

\* Fair scheduling of every reader thread and of the consolidation thread; the
\* producers are under no obligation.
FairMuxOrdered ==
    /\ InitMux /\ [][NextMuxOrdered]_vars
    /\ \A r \in Inputs : WF_vars(Recv(r)) /\ WF_vars(Insert(r))
    /\ WF_vars(ConsolidateStep)

\* process() thread by thread, the Mutex taken and released explicitly; it
\* starts where InitMux does.  A try_recv that fails changes nothing a thread
\* can see, so the specifications that do not follow it leave it out.
ReaderThread(r) == Recv(r) \/ Acquire(r) \/ Push(r)
BeginPassStep == \E o \in IterOrders(data_map) : BeginPass(o)
ConsolidationThread == BeginPassStep \/ ScanStep \/ EndPass

\* Arbitrary record streams.
NextLock ==
    \/ \E s \in Inputs, id \in Ids : Send(s, id)
    \/ \E r \in Inputs : ReaderThread(r)
    \/ ConsolidationThread

\* Sources that each produce ids 1..MaxId once, in increasing order.
NextLockOrdered ==
    \/ \E s \in Inputs : SendOrdered(s)
    \/ \E r \in Inputs : ReaderThread(r)
    \/ ConsolidationThread

\* Sources that produce ids 1..MaxLifeId, with stop() callable at any time.
NextLockShort ==
    \/ \E s \in Inputs : SendLife(s)
    \/ \E r \in Inputs : ReaderThread(r)
    \/ ConsolidationThread
    \/ stop

\* Sources that produce ids 1..MaxId, with stop() called at any moment.
NextStop ==
    \/ \E s \in Inputs : SendOrdered(s)
    \/ \E r \in Inputs : ReaderThread(r)
    \/ ConsolidationThread
    \/ stop

\* Sources that produce ids 1..MaxLifeId and may go away at any moment, with
\* the failing receives followed.
NextLife ==
    \/ \E s \in Inputs : SendLife(s)
    \/ \E s \in Inputs : Disconnect(s)
    \/ \E r \in Inputs : ReaderThread(r) \/ RecvFail(r)
    \/ ConsolidationThread

\* Every thread that can take a step eventually takes one, and a thread that
\* finds the Mutex free again and again eventually gets it.  The producers,
\* stop() and the failing try_recv are under no obligation.
ThreadFairness ==
    /\ \A r \in Inputs : WF_vars(Recv(r)) /\ SF_vars(Acquire(r)) /\ WF_vars(Push(r))
    /\ SF_vars(BeginPassStep)
    /\ WF_vars(ScanStep)
    /\ WF_vars(EndPass)

FairLock == InitMux /\ [][NextLock]_vars /\ ThreadFairness
FairLockOrdered == InitMux /\ [][NextLockOrdered]_vars /\ ThreadFairness
FairLockShort == InitMux /\ [][NextLockShort]_vars /\ ThreadFairness
FairStop == InitMux /\ [][NextStop]_vars /\ ThreadFairness
FairLife == InitMux /\ [][NextLife]_vars /\ ThreadFairness

\* Parameter::new with every choice of value, limits and allowed values;
\* beside it an interface and a multiplexer that are never called.
InitParam ==
    /\ kind = "File"
    /\ base_interface = [status |-> "Disconnected", mode |-> "Read",
                         log_interface |-> FALSE, error |-> "none"]
    /\ file = 0
    /\ socket = 0
    /\ remote_addr = ""
    /\ remote_socket_addr = "None"
    /\ multicast = FALSE
    /\ group = {}
    /\ opens = 0
    /\ ever_opened = FALSE
    /\ last = NoCall
    /\ caller = "running"
    /\ LOGGER = "None"
    /\ logger_lock = "free"
    /\ log_queue = <<>>
    /\ chan = [s \in Inputs |-> <<>>]
    /\ sent = [s \in Inputs |-> <<>>]
    /\ pc = [r \in Inputs |-> "recv"]
    /\ held = [r \in Inputs |-> NoId]
    /\ data_map = EmptyMap
    /\ out = <<>>
    /\ evicted = {}
    /\ param \in NewParameter
    /\ param_last = NoParamCall
    /\ staged = {}
    /\ since = <<>>
    /\ disk = {}
    /\ cursor = 0
    /\ buf = <<>>
    /\ wrote = <<>>
    /\ trip_pc = "idle"
    /\ mutex = {}
    /\ cons_pc = "lock"
    /\ iter = <<>>
    /\ loc_send = FALSE
    /\ loc_last_send = 0
    /\ stop_requested = FALSE
    /\ closed = {}
    /\ missed = {}
    /\ after_miss = FALSE

NextParam ==
    \/ \E value \in Vals : set_next_value(value)
    \/ update_value

SpecParam == InitParam /\ [][NextParam]_vars

\* The writer just constructed, over every state of the file at file_path;
\* beside it a multiplexer and a parameter that are never called.
InitTrip ==
    /\ kind = "File"
    /\ base_interface \in NewWriter
    /\ file = 0
    /\ socket = 0
    /\ remote_addr = ""
    /\ remote_socket_addr = "None"
    /\ multicast = FALSE
    /\ group = {}
    /\ opens = 0
    /\ ever_opened = FALSE
    /\ last = NoCall
    /\ caller = "running"
    /\ LOGGER = "None"
    /\ logger_lock = "free"
    /\ log_queue = <<>>
    /\ chan = [s \in Inputs |-> <<>>]
    /\ sent = [s \in Inputs |-> <<>>]
    /\ pc = [r \in Inputs |-> "recv"]
    /\ held = [r \in Inputs |-> NoId]
    /\ data_map = EmptyMap
    /\ out = <<>>
    /\ evicted = {}
    /\ param = IdleParam
    /\ param_last = NoParamCall
    /\ staged = {}
    /\ since = <<>>
    /\ disk \in {{}} \cup {{c} : c \in Contents}
    /\ cursor = 0
    /\ buf = <<>>
    /\ wrote = <<>>
    /\ trip_pc = "w_open"
    /\ mutex = {}
    /\ cons_pc = "lock"
    /\ iter = <<>>
    /\ loc_send = FALSE
    /\ loc_last_send = 0
    /\ stop_requested = FALSE
    /\ closed = {}
    /\ missed = {}
    /\ after_miss = FALSE

\* Writer: open, writes, close; then the reader: open, one read.  Any call may
\* fail in the operating system, which ends the trip.
NextTrip ==
    \/ \E io_ok \in BOOLEAN : TripOpen(io_ok)
    \/ \E bytes \in Contents, io_ok \in BOOLEAN : TripWrite(bytes, io_ok)
    \/ \E io_ok \in BOOLEAN : TripClose(io_ok)
    \/ \E log_if \in BOOLEAN : NewReader(log_if)
    \/ \E io_ok \in BOOLEAN : TripRead(io_ok)

SpecTrip == InitTrip /\ [][NextTrip]_vars

\* ============================================================== claims
\* The transport resource the interface holds now / held before the last call.
Resource == IF kind = "File" THEN file ELSE socket
PreResource == IF kind = "File" THEN last.pre.file ELSE last.pre.socket

\* The mode lets the operation through to the status test.
ModePermits(op) ==
    \/ op = "read" /\ base_interface.mode # "Write"
    \/ op = "write" /\ base_interface.mode # "Read"

\* C1: on an interface no open call has ever opened, a read or a write fails
\* with NotOpenIFace as the last error and performs no file or socket
\* operation.  Stated for the calls the mode permits (a call the mode forbids
\* answers with the mode error, C3), which is a consequence of the claim.
C1_ReadWriteBeforeOpen ==
    (last.op \in {"read", "write"} /\ ~ever_opened /\ ModePermits(last.op))
        => /\ last.res # "Ok"
           /\ base_interface.error = "NotOpenIFace"
           /\ last.io = {}

\* C2: open on a Connected interface fails, records AlreadyOpenIFace, leaves
\* the status Connected and the resource handle as it was, and makes no IO call.
C2_SecondOpenRejected ==
    (last.op = "open" /\ last.pre.status = "Connected")
        => /\ last.res # "Ok"
           /\ base_interface.error = "AlreadyOpenIFace"
           /\ base_interface.status = "Connected"
           /\ file = last.pre.file
           /\ socket = last.pre.socket
           /\ last.io = {}

\* C2 witness: an open call on a Connected interface that holds its resource
\* has returned Err.
C2_Witness ==
    /\ last.op = "open"
    /\ last.pre.status = "Connected"
    /\ last.res = "Err"
    /\ Resource # 0

\* C3: in every status and for every buffer, write on a Read-mode interface
\* fails with ReadOnWriteOnly and read on a Write-mode interface fails with
\* WriteOnReadOnly; the call makes no IO call and leaves status and resource.
C3_ModeEnforced ==
    /\ (last.op = "write" /\ base_interface.mode = "Read")
          => /\ last.res # "Ok"
             /\ base_interface.error = "ReadOnWriteOnly"
             /\ last.io = {}
             /\ base_interface.status = last.pre.status
             /\ Resource = PreResource
    /\ (last.op = "read" /\ base_interface.mode = "Write")
          => /\ last.res # "Ok"
             /\ base_interface.error = "WriteOnReadOnly"
             /\ last.io = {}
             /\ base_interface.status = last.pre.status
             /\ Resource = PreResource

\* C3 witness: a write of a non-empty buffer on a Connected Read-mode interface
\* has returned Err.
C3_Witness ==
    /\ last.op = "write"
    /\ base_interface.mode = "Read"
    /\ base_interface.status = "Connected"
    /\ last.len = MaxBuf
    /\ last.res = "Err"
    /\ Resource # 0

\* C4: a read or write call returns success only if the status is Connected.
C4_SuccessOnlyWhenConnected ==
    (last.op \in {"read", "write"} /\ last.res = "Ok")
        => base_interface.status = "Connected"

\* C5: close on a Connected interface that holds a resource ends with the
\* status Disconnected and no resource held, whatever the flush/sync outcome.
C5_CloseReleases ==
    (last.op = "close" /\ last.pre.status = "Connected" /\ PreResource # 0)
        => /\ base_interface.status = "Disconnected"
           /\ Resource = 0

\* ----------------------------------------------------- multiplexer claims
Range(f) == {f[i] : i \in DOMAIN f}
OutKeys == {out[i].id : i \in DOMAIN out}
Count(f, x) == Cardinality({i \in DOMAIN f : f[i] = x})

\* Every source has produced its whole stream 1..MaxId.
AllProduced == \A s \in Inputs : Len(sent[s]) = MaxId

\* The output channel carries exactly MaxId groups, one per id in 1..MaxId,
\* each with exactly NumInputs records.
C6_Complete ==
    /\ Len(out) = MaxId
    /\ OutKeys = 1..MaxId
    /\ \A i \in DOMAIN out : Len(out[i].data) = NumInputs
    /\ evicted = {}

\* C6: with sources that each produce one record per id for ids 1..MaxId in
\* increasing order, and fair scheduling of the readers and the consolidation
\* loop, the output eventually carries exactly MaxId groups, one per id, each
\* of NumInputs records, and stays so (nothing lost to eviction, nothing
\* emitted twice).
C6_Completeness == AllProduced ~> []C6_Complete

\* C6 witness: all sources have produced everything and the output is
\* complete.
C6_Witness == AllProduced /\ C6_Complete /\ data_map = EmptyMap

\* C7: the groups on the output channel are in non-decreasing sequence_id
\* order.
C7_EmissionOrdered ==
    \A i, j \in DOMAIN out : i < j => out[i].id <= out[j].id

\* Nothing is in flight and nothing in the map is complete: no reader or
\* consolidation step changes anything until a new record is produced.
Settled ==
    /\ \A s \in Inputs : chan[s] = <<>> /\ pc[s] = "recv"
    /\ \A k \in DOMAIN data_map : ~GroupComplete(data_map[k])

\* Exactly one source has produced no record for k, every other source has
\* produced one, and afterwards all sources produced j > k, which was emitted.
Gap(k, j) ==
    /\ k < j
    /\ \E a \in Inputs :
          /\ Count(sent[a], k) = 0
          /\ \A b \in Inputs \ {a} :
                /\ Count(sent[b], k) = 1
                /\ \E p, q \in DOMAIN sent[b] : p < q /\ sent[b][p] = k /\ sent[b][q] = j
    /\ \A s \in Inputs : Count(sent[s], j) = 1
    /\ j \in OutKeys

\* C8: when one source skips id k and all sources later complete j > k, the
\* partial group of k is removed from the map and never emitted.  As a final
\* result: once everything produced has been delivered and emitted, k is
\* neither in the map nor on the output.
C8_StaleEvicted ==
    \A k, j \in 1..MaxId :
        (Settled /\ Gap(k, j)) => (k \notin DOMAIN data_map /\ k \notin OutKeys)

\* C9: at most one group per sequence_id is ever emitted.
C9_AtMostOncePerKey ==
    \A i, j \in DOMAIN out : i # j => out[i].id # out[j].id

\* C10: every emitted group holds exactly one record from each input.
C10_OnePerSource ==
    \A i \in DOMAIN out :
        \A s \in Inputs : Count(out[i].data, s) = 1

\* C11: with one input that produces nothing while the others keep producing
\* new ids, the number of keys the map retains stays below a bound that does
\* not depend on how many ids were produced.  Such a bound lies below MaxSend
\* once MaxSend exceeds it: the map never holds as many keys as a source may
\* produce ids.
C11_BoundedRetention ==
    (\E a \in Inputs : sent[a] = <<>>)
        => Cardinality(DOMAIN data_map) < MaxSend

\* C14: a UDP interface whose remote address is multicast is a member of the
\* group after a successful open and is not a member after a successful close.
C14_MulticastMembership ==
    (kind = "UDP" /\ IsMulticast(remote_addr) /\ last.res = "Ok")
        => /\ last.op = "open" => socket \in group
           /\ last.op = "close" => socket \notin group

\* The four calls of the Interface trait.
TraitOps == {"open", "close", "read", "write"}

\* C16: no open, close, read or write call on any interface panics, whether
\* the logger was initialised or not.
C16_NeverPanics == last.op \in TraitOps => last.res # "Panic"

\* C17: after every successful read or write, on a File or a UDP interface,
\* the last error of the interface is none.
C17_SuccessClearsError ==
    (last.op \in {"read", "write"} /\ last.res = "Ok")
        => base_interface.error = "none"

\* C18: when the transport IO of a read or write on a Connected interface
\* fails, the call returns an error and the last error is GenericError.
C18_IoFailureRecorded ==
    (/\ last.op \in {"read", "write"}
     /\ last.pre.status = "Connected"
     /\ last.io # {}
     /\ last.res # "Ok")
        => last.res = "Err" /\ base_interface.error = "GenericError"

\* C19: every open either ends Connected with the resource present, or leaves
\* the status as it was and records a last error.
C19_OpenOutcome ==
    last.op = "open"
        => \/ /\ last.res = "Ok"
              /\ base_interface.status = "Connected"
              /\ Resource # 0
           \/ /\ last.res # "Ok"
              /\ base_interface.status = last.pre.status
              /\ base_interface.error # "none"

\* C20: every trait call that returns an error on an interface that is not a
\* logging sink has enqueued an ERR entry; a logging sink enqueues nothing.
C20_ErrorsLogged ==
    /\ (last.op \in TraitOps /\ last.res = "Err" /\ ~base_interface.log_interface)
           => \E i \in 1..Len(log_queue) : log_queue[i].level = "ERR"
    /\ base_interface.log_interface => log_queue = <<>>

\* The conditions under which set_next_value must reject its argument.
OutOfLimits(value) ==
    \/ \E m \in param.min_value : value < m
    \/ \E m \in param.max_value : value > m
NotAllowed(value) == \E S \in param.allowed_values : value \notin S

\* C12: set_next_value with a value outside [min, max] or outside the allowed
\* set fails, with the outcome the value and the constraints determine, and
\* leaves next_value and current_value as they were (nothing is clamped).
C12_RejectedLeavesValues ==
    (/\ param_last.op = "set_next_value"
     /\ OutOfLimits(param_last.value) \/ NotAllowed(param_last.value))
        => /\ param_last.res = IF OutOfLimits(param_last.value)
                               THEN "Panic: out of limits"
                               ELSE "Panic: not in allowed values"
           /\ param.next_value = param_last.pre_next
           /\ param.current_value = param_last.pre_current

\* A call rejected for a value that differs from the staged one.
C12_Witness ==
    /\ param_last.op = "set_next_value"
    /\ OutOfLimits(param_last.value)
    /\ param_last.value # param_last.pre_next
    /\ param_last.res = "Panic: out of limits"
    /\ param.next_value = param_last.pre_next

\* C13: once set_next_value(v) was accepted and update_value has been called
\* after it, with any number of rejected set_next_value calls before, between
\* or after the updates, get_current_value returns v; an update_value after the
\* first one leaves current_value as it was.
C13_CommitExact ==
    /\ \A v \in staged :
           "update" \in Range(since) => get_current_value = v
    /\ (/\ staged # {}
        /\ param_last.op = "update_value"
        /\ Count(since, "update") >= 2)
           => param.current_value = param_last.pre_current

\* An accepted call, then a rejected call, the update, and a second update.
C13_Witness ==
    /\ staged # {}
    /\ since = <<"reject", "update", "update">>
    /\ param_last.op = "update_value"
    /\ param.current_value \in staged

\* C15: the bytes written through a ReadWrite File interface, once it is
\* closed and a Read-mode File interface on the same path is opened, are the
\* bytes a read into a buffer of that length returns, in the same order.
C15_RoundTrip == trip_pc = "done" => buf = wrote

\* A completed trip that wrote as many bytes as the bound allows.
C15_Witness ==
    /\ trip_pc = "done"
    /\ Len(wrote) = MaxFile
    /\ buf = wrote
    /\ last.op = "read" /\ last.res = "Ok"

\* C21: once stop has been requested, every reader thread and the
\* consolidation loop eventually terminate, a reader whose data never arrives
\* included.
C21_Cancellation ==
    stop_requested ~> (/\ \A r \in Inputs : pc[r] = "exited"
                       /\ cons_pc = "exited")

\* C22: a call of init_log on the uninitialised logger returns and leaves the
\* singleton initialised and its lock free, so that a log() call after it
\* returns the logger.  (log() on the uninitialised logger is fatal: LogCall.)
C22_InitOnce ==
    [][(\E by \in {"caller", "other"}, outcome \in {"deadlock", "panic"} :
            init_log(by, outcome))
          => /\ LOGGER' = "Some"
             /\ logger_lock' = "free"
             /\ caller' = "running"]_vars

\* C23: a group is sent and removed from the map inside one critical section
\* of the consolidation loop; no reader is inside the lock during a scan, and
\* nothing is appended to a group between the copy on which its completeness
\* is tested and its removal: what the scan has yet to visit is what the map
\* holds.
C23_AtomicRemoval ==
    /\ [](/\ Cardinality(mutex) <= 1
          /\ cons_pc = "scan" => Cons \in mutex
          /\ \A i \in 1..Len(iter) :
                /\ iter[i].id \in DOMAIN data_map
                /\ data_map[iter[i].id] = iter[i].data)
    /\ [][out' # out => /\ Cons \in mutex /\ Cons \in mutex'
                        /\ out'[Len(out')].id \notin DOMAIN data_map']_vars

\* A group has just been sent and removed, the scan is not over, and a reader
\* with a record in hand is waiting for the lock.
C23_Witness ==
    /\ cons_pc = "scan"
    /\ loc_send
    /\ iter # <<>>
    /\ out # <<>>
    /\ \E r \in Inputs : pc[r] = "insert" /\ r \notin mutex

C25_FailedReceiveHarmless ==
    /\ [](missed # {} =>
            /\ \A r \in Inputs : pc[r] \in {"recv", "insert"}
            /\ cons_pc \in {"lock", "scan"}
            /\ \A r \in Inputs :
                  (chan[r] # <<>> \/ pc[r] = "insert") /\ mutex \subseteq {r}
                      => ENABLED ReaderThread(r))
    /\ [][missed' # missed =>
            /\ pc' = pc /\ cons_pc' = cons_pc /\ mutex' = mutex
            /\ chan' = chan /\ held' = held /\ data_map' = data_map]_vars

\* A reader whose source is gone without ever sending has failed a receive and
\* is polling again, and another reader has pushed a record after that failure.
C25_Witness ==
    /\ after_miss
    /\ \E r \in missed \cap closed : sent[r] = <<>> /\ pc[r] = "recv"
    /\ data_map # << >>

\* C26: the update is two-phase.  A set_next_value call, accepted or rejected,
\* leaves current_value as it was; current_value changes only in update_value,
\* and only to the next_value of that moment; so what get_current_value
\* returns changes in no step but an update_value.
C26_TwoPhase ==
    [][/\ param_last'.op = "set_next_value"
            => param'.current_value = param.current_value
       /\ param'.current_value # param.current_value
            => /\ param_last'.op = "update_value"
               /\ param'.current_value = param.next_value
       /\ get_current_value' # get_current_value
            => param_last'.op = "update_value"]_vars

\* A second value has just been staged over a first one that was never
\* committed, and current_value is neither.
C26_Witness ==
    /\ param_last.op = "set_next_value"
    /\ param_last.res = "Ok"
    /\ param_last.pre_next # param_last.pre_current
    /\ param_last.value # param_last.pre_next
    /\ get_current_value = param_last.pre_current
    /\ get_current_value # param.next_value

\* C27: in every reachable state, after failed opens and failed closes
\* included, the status is Connected exactly when the transport resource (the
\* file handle, the bound socket) is held; so no state refuses both open (as
\* already open) and close (as not open).
ResourceHeld == IF kind = "File" THEN file # 0 ELSE socket # 0
C27_StatusMatchesResource ==
    (base_interface.status = "Connected") <=> ResourceHeld

\* C28: with every thread scheduled fairly and an output sender set, every key
\* whose group in the map reaches sender_size records is eventually emitted,
\* whatever is appended to it or scanned around it in the meantime.
C28_CompleteEventuallyEmitted ==
    \A k \in Ids :
        (k \in DOMAIN data_map /\ Len(data_map[k]) = sender_size)
            ~> (k \in OutKeys)

====
